---------------------------- MODULE Spec2Model ----------------------------
(***************************************************************************)
(* Collection client of replicate-rust (src/collection.rs).                *)
(*                                                                         *)
(* Collection::get and Collection::list each build one GET request from    *)
(* the Config held in `parent`, send it with the blocking client, check    *)
(* the status, read the body text and decode it with serde_json.  A call   *)
(* blocks in send(); that is the only point where calls made from several  *)
(* threads interleave, so each method is two steps: *_call (build and      *)
(* send) and *_return (everything after send() comes back).                *)
(***************************************************************************)
EXTENDS Integers, Sequences, FiniteSets, TLC

VARIABLES
    parent,     \* Collection.parent: the Config every client holds
    calls,      \* the calls made so far, in order: [thread, op, arg]
    requests,   \* the requests handed to send(), in order
    pc,         \* per thread: "idle", "sent" (blocked in send) or "done"
    cur,        \* per thread: index in calls of its current/last call
    resp,       \* per thread: what send() gave its last call
    result      \* per thread: what its last call returned

vars == <<parent, calls, requests, pc, cur, resp, result>>

\* Total number of calls made in one behaviour.
MaxCalls == 3

Threads == {"t1", "t2"}

-----------------------------------------------------------------------------
(* Config values: the test's (auth "test", the mock server's base URL) and *)
(* one more.                                                               *)
Configs ==
    { [base_url |-> "http://127.0.0.1:5000", auth |-> "test",
       user_agent |-> "replicate-rust/0.5.1"],
      [base_url |-> "https://api.replicate.com/v1", auth |-> "r8_key",
       user_agent |-> "my-agent"] }

\* Slugs passed to get: the test's slug and one the server does not know.
Slugs == {"super-resolution", "unknown"}

-----------------------------------------------------------------------------
(* Response body texts.                                                    *)
TextGetOk ==
    "{\"name\":\"Super resolution\",\"slug\":\"super-resolution\",\"description\":\"Upscaling models\",\"models\":[]}"

TextGetBadType ==
    "{\"name\":null,\"slug\":\"super-resolution\",\"description\":\"Upscaling models\",\"models\":[]}"

TextListTwo ==
    "{\"results\":[{\"name\":\"Super resolution\",\"slug\":\"super-resolution\",\"description\":\"Upscaling models\"},{\"name\":\"Image classification\",\"slug\":\"image-classification\",\"description\":\"Models that classify images.\"}],\"next\":null,\"previous\":null}"

TextListNext ==
    "{\"results\":[{\"name\":\"Image classification\",\"slug\":\"image-classification\",\"description\":\"Models that classify images.\"}],\"next\":\"http://127.0.0.1:5000/collections?cursor=2\",\"previous\":null}"

TextListBadItem ==
    "{\"results\":[{\"name\":\"Image classification\"}],\"next\":null,\"previous\":null}"

TextNotFound == "not found"

Texts ==
    { TextGetOk, TextGetBadType, TextListTwo, TextListNext, TextListBadItem,
      TextNotFound }

\* Status codes the server answers with.
Statuses == {200, 201, 404}

-----------------------------------------------------------------------------
(* JSON values, as serde_json parses them.                                 *)
JNull == [t |-> "null"]

JStr(s) == [t |-> "str", s |-> s]

JArr(a) == [t |-> "arr", a |-> a]

JObj(o) == [t |-> "obj", o |-> o]

JSuperResolution ==
    [name |-> JStr("Super resolution"), slug |-> JStr("super-resolution"),
     description |-> JStr("Upscaling models")]

JImageClassification ==
    [name |-> JStr("Image classification"), slug |-> JStr("image-classification"),
     description |-> JStr("Models that classify images.")]

(* The syntax half of serde_json::from_str on the texts above: the JSON    *)
(* value a text denotes, or a syntax error.                                *)
Parse(text) ==
    CASE text = TextGetOk ->
            [ok |-> TRUE,
             v |-> JObj([name |-> JStr("Super resolution"),
                         slug |-> JStr("super-resolution"),
                         description |-> JStr("Upscaling models"),
                         models |-> JArr(<<>>)])]
      [] text = TextGetBadType ->
            [ok |-> TRUE,
             v |-> JObj([name |-> JNull,
                         slug |-> JStr("super-resolution"),
                         description |-> JStr("Upscaling models"),
                         models |-> JArr(<<>>)])]
      [] text = TextListTwo ->
            [ok |-> TRUE,
             v |-> JObj([results |-> JArr(<<JObj(JSuperResolution),
                                            JObj(JImageClassification)>>),
                         next |-> JNull,
                         previous |-> JNull])]
      [] text = TextListNext ->
            [ok |-> TRUE,
             v |-> JObj([results |-> JArr(<<JObj(JImageClassification)>>),
                         next |-> JStr("http://127.0.0.1:5000/collections?cursor=2"),
                         previous |-> JNull])]
      [] text = TextListBadItem ->
            [ok |-> TRUE,
             v |-> JObj([results |->
                            JArr(<<JObj([name |-> JStr("Image classification")])>>),
                         next |-> JNull,
                         previous |-> JNull])]
      [] OTHER -> [ok |-> FALSE]


-----------------------------------------------------------------------------
(* The shape half of serde_json::from_str: the derived Deserialize of the  *)
(* response structs of api_definitions.                                    *)
IsStr(o, f) == f \in DOMAIN o /\ o[f].t = "str"

IsArrOfObj(o, f) ==
    /\ f \in DOMAIN o
    /\ o[f].t = "arr"
    /\ \A i \in DOMAIN o[f].a : o[f].a[i].t = "obj"

\* Option<String>: a missing field or null is None, a string is Some.
IsOptStr(o, f) == f \in DOMAIN o => o[f].t \in {"null", "str"}

OptStr(o, f) ==
    IF f \in DOMAIN o /\ o[f].t = "str"
    THEN [some |-> TRUE, s |-> o[f].s]
    ELSE [some |-> FALSE]

\* One element of ListCollectionModels.results.
IsListItem(j) ==
    j.t = "obj" /\ IsStr(j.o, "name") /\ IsStr(j.o, "slug") /\ IsStr(j.o, "description")

ListItem(j) ==
    [name |-> j.o.name.s, slug |-> j.o.slug.s, description |-> j.o.description.s]

GetCollectionModels(j) ==
    IF /\ j.t = "obj"
       /\ IsStr(j.o, "name") /\ IsStr(j.o, "slug") /\ IsStr(j.o, "description")
       /\ IsArrOfObj(j.o, "models")
    THEN [ok |-> TRUE,
          v |-> [name |-> j.o.name.s,
                 slug |-> j.o.slug.s,
                 description |-> j.o.description.s,
                 models |-> [i \in DOMAIN j.o.models.a |-> j.o.models.a[i].o]]]
    ELSE [ok |-> FALSE]

ListCollectionModels(j) ==
    IF /\ j.t = "obj"
       /\ "results" \in DOMAIN j.o
       /\ j.o.results.t = "arr"
       /\ \A i \in DOMAIN j.o.results.a : IsListItem(j.o.results.a[i])
       /\ IsOptStr(j.o, "next") /\ IsOptStr(j.o, "previous")
    THEN [ok |-> TRUE,
          v |-> [results |-> [i \in DOMAIN j.o.results.a |-> ListItem(j.o.results.a[i])],
                 next |-> OptStr(j.o, "next"),
                 previous |-> OptStr(j.o, "previous")]]
    ELSE [ok |-> FALSE]

-----------------------------------------------------------------------------
(* Result<_, ReplicateError>.                                              *)
Ok(v) == [kind |-> "Ok", v |-> v]

ResponseError(s) == [kind |-> "ResponseError", text |-> s]

\* From<reqwest::Error>: what `?` makes of a failed send() or text().
TransportError(e) == [kind |-> "TransportError", err |-> e]

\* From<serde_json::Error>: what `?` makes of a failed from_str.
DecodeError == [kind |-> "DecodeError"]

NoResult == [kind |-> "none"]

-----------------------------------------------------------------------------
(* What the transport can give back.                                       *)
\* response.text(): the body text, or a failure of the read.
TextOutcomes ==
    {[ok |-> FALSE, err |-> "body"]} \cup {[ok |-> TRUE, s |-> x] : x \in Texts}

\* send(): a failure before any response, or a response.
SendOutcomes ==
    {[ok |-> FALSE, err |-> "connect"]}
        \cup {[ok |-> TRUE, status |-> st, text |-> tx] :
                 st \in Statuses, tx \in TextOutcomes}

NoResp == [ok |-> FALSE, err |-> "none"]

\* Variant of is_success: only server errors count as failures.
is_success_not_server_error(status) == status < 500

\* StatusCode::is_success
is_success(status) == 200 <= status /\ status <= 299

-----------------------------------------------------------------------------
(* Collection::get                                                         *)
\* Variant of get_request: the URL of list, the slug left out.
get_request_no_slug(slug, id) ==
    [call |-> id,
     method |-> "GET",
     url |-> parent.base_url \o "/collections",
     headers |-> << <<"Authorization", "Token " \o parent.auth>>,
                    <<"User-Agent", parent.user_agent>> >>]

get_request(slug, id) ==
    [call |-> id,
     method |-> "GET",
     url |-> parent.base_url \o "/collections/" \o slug,
     headers |-> << <<"Authorization", "Token " \o parent.auth>>,
                    <<"User-Agent", parent.user_agent>> >>]

\* Variant of get_result: the body decoded as list decodes it.
get_result_as_list(o) ==
    IF ~o.ok THEN TransportError(o.err)
    ELSE IF ~is_success(o.status)
         THEN IF o.text.ok THEN ResponseError(o.text.s)
                           ELSE TransportError(o.text.err)
    ELSE IF ~o.text.ok THEN TransportError(o.text.err)
    ELSE LET p == Parse(o.text.s) IN
         IF ~p.ok THEN DecodeError
         ELSE LET d == ListCollectionModels(p.v) IN
              IF d.ok THEN Ok(d.v) ELSE DecodeError

\* Variant of get_result: a body of the wrong shape gives a default struct.
get_result_default(o) ==
    IF ~o.ok THEN TransportError(o.err)
    ELSE IF ~is_success(o.status)
         THEN IF o.text.ok THEN ResponseError(o.text.s)
                           ELSE TransportError(o.text.err)
    ELSE IF ~o.text.ok THEN TransportError(o.text.err)
    ELSE LET p == Parse(o.text.s) IN
         IF ~p.ok THEN DecodeError
         ELSE LET d == GetCollectionModels(p.v) IN
              IF d.ok THEN Ok(d.v)
              ELSE Ok([name |-> "", slug |-> "", description |-> "", models |-> <<>>])

\* Lines 63-72: from the outcome of send() to the value returned.
get_result(o) ==
    IF ~o.ok THEN TransportError(o.err)
    ELSE IF ~is_success(o.status)
         THEN IF o.text.ok THEN ResponseError(o.text.s)
                           ELSE TransportError(o.text.err)
    ELSE IF ~o.text.ok THEN TransportError(o.text.err)
    ELSE LET p == Parse(o.text.s) IN
         IF ~p.ok THEN DecodeError
         ELSE LET d == GetCollectionModels(p.v) IN
              IF d.ok THEN Ok(d.v) ELSE DecodeError

get_call(t, slug) ==
    /\ pc[t] # "sent"
    /\ Len(calls) < MaxCalls
    /\ calls' = Append(calls, [thread |-> t, op |-> "get", arg |-> slug])
    /\ requests' = Append(requests, get_request(slug, Len(calls) + 1))
    /\ cur' = [cur EXCEPT ![t] = Len(calls) + 1]
    /\ pc' = [pc EXCEPT ![t] = "sent"]
    /\ resp' = [resp EXCEPT ![t] = NoResp]
    /\ result' = [result EXCEPT ![t] = NoResult]
    /\ UNCHANGED parent

\* Variant of get_return: a failed send() is tried once more.
get_return_retry(t) ==
    /\ pc[t] = "sent"
    /\ calls[cur[t]].op = "get"
    /\ \E o \in SendOutcomes :
          /\ resp' = [resp EXCEPT ![t] = o]
          /\ result' = [result EXCEPT ![t] = get_result(o)]
          /\ requests' = IF o.ok THEN requests
                         ELSE Append(requests, get_request(calls[cur[t]].arg, cur[t]))
    /\ pc' = [pc EXCEPT ![t] = "done"]
    /\ UNCHANGED <<parent, calls, cur>>

\* Variant of get_return: the response is read from a buffer all clients
\* share, which holds the response of a call that returned before.
get_return_shared(t) ==
    /\ pc[t] = "sent"
    /\ calls[cur[t]].op = "get"
    /\ \E o \in SendOutcomes :
          /\ resp' = [resp EXCEPT ![t] = o]
          /\ result' = [result EXCEPT ![t] =
                IF \E u \in Threads \ {t} : pc[u] = "done"
                THEN get_result(resp[CHOOSE u \in Threads \ {t} : pc[u] = "done"])
                ELSE get_result(o)]
    /\ pc' = [pc EXCEPT ![t] = "done"]
    /\ UNCHANGED <<parent, calls, requests, cur>>

get_return(t) ==
    /\ pc[t] = "sent"
    /\ calls[cur[t]].op = "get"
    /\ \E o \in SendOutcomes :
          /\ resp' = [resp EXCEPT ![t] = o]
          /\ result' = [result EXCEPT ![t] = get_result(o)]
    /\ pc' = [pc EXCEPT ![t] = "done"]
    /\ UNCHANGED <<parent, calls, requests, cur>>

-----------------------------------------------------------------------------
(* Collection::list                                                        *)
\* Variant of list_request: the Bearer scheme in place of Token.
list_request_bearer(id) ==
    [call |-> id,
     method |-> "GET",
     url |-> parent.base_url \o "/collections",
     headers |-> << <<"Authorization", "Bearer " \o parent.auth>>,
                    <<"User-Agent", parent.user_agent>> >>]

list_request(id) ==
    [call |-> id,
     method |-> "GET",
     url |-> parent.base_url \o "/collections",
     headers |-> << <<"Authorization", "Token " \o parent.auth>>,
                    <<"User-Agent", parent.user_agent>> >>]

\* Variant of list_result: from_str(..).unwrap() in place of `?`.
list_result_unwrap(o) ==
    IF ~o.ok THEN TransportError(o.err)
    ELSE IF ~is_success(o.status)
         THEN IF o.text.ok THEN ResponseError(o.text.s)
                           ELSE TransportError(o.text.err)
    ELSE IF ~o.text.ok THEN TransportError(o.text.err)
    ELSE LET p == Parse(o.text.s) IN
         IF ~p.ok THEN [kind |-> "panic"]
         ELSE LET d == ListCollectionModels(p.v) IN
              IF d.ok THEN Ok(d.v) ELSE [kind |-> "panic"]

\* Variant of list_result: the body is read and decoded first, the status
\* checked afterwards.
list_result_decode_first(o) ==
    IF ~o.ok THEN TransportError(o.err)
    ELSE IF ~o.text.ok THEN TransportError(o.text.err)
    ELSE LET p == Parse(o.text.s) IN
         IF ~p.ok THEN DecodeError
         ELSE LET d == ListCollectionModels(p.v) IN
              IF ~d.ok THEN DecodeError
              ELSE IF ~is_success(o.status) THEN ResponseError(o.text.s)
              ELSE Ok(d.v)

\* Lines 97-106: from the outcome of send() to the value returned.
list_result(o) ==
    IF ~o.ok THEN TransportError(o.err)
    ELSE IF ~is_success(o.status)
         THEN IF o.text.ok THEN ResponseError(o.text.s)
                           ELSE TransportError(o.text.err)
    ELSE IF ~o.text.ok THEN TransportError(o.text.err)
    ELSE LET p == Parse(o.text.s) IN
         IF ~p.ok THEN DecodeError
         ELSE LET d == ListCollectionModels(p.v) IN
              IF d.ok THEN Ok(d.v) ELSE DecodeError

list_call(t) ==
    /\ pc[t] # "sent"
    /\ Len(calls) < MaxCalls
    /\ calls' = Append(calls, [thread |-> t, op |-> "list", arg |-> ""])
    /\ requests' = Append(requests, list_request(Len(calls) + 1))
    /\ cur' = [cur EXCEPT ![t] = Len(calls) + 1]
    /\ pc' = [pc EXCEPT ![t] = "sent"]
    /\ resp' = [resp EXCEPT ![t] = NoResp]
    /\ result' = [result EXCEPT ![t] = NoResult]
    /\ UNCHANGED parent

\* Variant of list_return: a page with a next cursor is followed.
list_return_follow(t) ==
    /\ pc[t] = "sent"
    /\ calls[cur[t]].op = "list"
    /\ \E o \in SendOutcomes :
          LET r == list_result(o) IN
          /\ resp' = [resp EXCEPT ![t] = o]
          /\ result' = [result EXCEPT ![t] = r]
          /\ requests' =
                IF r.kind = "Ok" /\ r.v.next.some
                THEN Append(requests,
                            [call |-> cur[t], method |-> "GET", url |-> r.v.next.s,
                             headers |-> list_request(cur[t]).headers])
                ELSE requests
    /\ pc' = [pc EXCEPT ![t] = "done"]
    /\ UNCHANGED <<parent, calls, cur>>

list_return(t) ==
    /\ pc[t] = "sent"
    /\ calls[cur[t]].op = "list"
    /\ \E o \in SendOutcomes :
          /\ resp' = [resp EXCEPT ![t] = o]
          /\ result' = [result EXCEPT ![t] = list_result(o)]
    /\ pc' = [pc EXCEPT ![t] = "done"]
    /\ UNCHANGED <<parent, calls, requests, cur>>

-----------------------------------------------------------------------------
\* Collection::new: the client holds the Config it is given.
Init ==
    /\ parent \in Configs
    /\ calls = <<>>
    /\ requests = <<>>
    /\ pc = [t \in Threads |-> "idle"]
    /\ cur = [t \in Threads |-> 0]
    /\ resp = [t \in Threads |-> NoResp]
    /\ result = [t \in Threads |-> NoResult]

Next ==
    \E t \in Threads :
        \/ \E slug \in Slugs : get_call(t, slug)
        \/ get_return(t)
        \/ list_call(t)
        \/ list_return(t)

Spec == Init /\ [][Next]_vars

-----------------------------------------------------------------------------
(* Vocabulary of the properties.                                           *)
Done(t) == pc[t] = "done"

Call(t) == calls[cur[t]]

\* The response a finished call got: send() succeeded.
Answered(t) == Done(t) /\ resp[t].ok

SuccessRange == 200..299

\* The requests that call number id caused.
RequestsOf(id) == {k \in DOMAIN requests : requests[k].call = id}

\* The body text is valid JSON of the shape the operation expects.
WellFormedFor(op, text) ==
    /\ Parse(text).ok
    /\ IF op = "get" THEN GetCollectionModels(Parse(text).v).ok
                     ELSE ListCollectionModels(Parse(text).v).ok

ResultKinds == {"Ok", "TransportError", "ResponseError", "DecodeError"}

-----------------------------------------------------------------------------
(* C1, as stated: every call whose response has a status outside 2xx       *)
(* returns ResponseError, carrying exactly the response body.              *)
C1_AsStated ==
    \A t \in Threads :
        (Answered(t) /\ resp[t].status \notin SuccessRange)
            => /\ result[t].kind = "ResponseError"
               /\ resp[t].text.ok
               /\ result[t].text = resp[t].text.s

(* C1, amended: every call whose response has a status outside 2xx and     *)
(* whose body text could be read returns ResponseError, and the text it    *)
(* carries is exactly that body text, whatever it is.                      *)
C1_ResponseErrorCarriesBody ==
    \A t \in Threads :
        (Answered(t) /\ resp[t].status \notin SuccessRange /\ resp[t].text.ok)
            => /\ result[t].kind = "ResponseError"
               /\ result[t].text = resp[t].text.s

\* Scenario C: get("unknown") answered 404 "not found".
C1_Witness ==
    \E t \in Threads :
        /\ Answered(t)
        /\ Call(t).op = "get" /\ Call(t).arg = "unknown"
        /\ resp[t].status = 404
        /\ resp[t].text = [ok |-> TRUE, s |-> TextNotFound]
        /\ result[t] = [kind |-> "ResponseError", text |-> "not found"]

(* C2: a call whose response has a success status and a body that is not   *)
(* valid JSON of the expected shape returns the decode error as an         *)
(* ordinary value: not Ok, and no other way out of the call.               *)
C2_MalformedBodyIsDecodeError ==
    \A t \in Threads :
        (/\ Answered(t)
         /\ resp[t].status \in SuccessRange
         /\ resp[t].text.ok
         /\ ~WellFormedFor(Call(t).op, resp[t].text.s))
            => result[t] = [kind |-> "DecodeError"]

\* A 200 whose body is not JSON on one thread, a 200 carrying the other
\* endpoint's JSON on the other.
C2_Witness ==
    \E t, u \in Threads :
        /\ t # u
        /\ Answered(t) /\ Call(t).op = "list" /\ resp[t].status = 200
        /\ resp[t].text = [ok |-> TRUE, s |-> TextNotFound]
        /\ result[t].kind = "DecodeError"
        /\ Answered(u) /\ Call(u).op = "get" /\ resp[u].status = 200
        /\ resp[u].text = [ok |-> TRUE, s |-> TextListTwo]
        /\ result[u].kind = "DecodeError"

(* C3: get answered 200 with a well-formed JSON body returns Ok with a     *)
(* struct whose name, slug, description and models are the values of the   *)
(* JSON body, for every base URL and slug.                                 *)
C3_GetDecodesFields ==
    \A t \in Threads :
        (/\ Answered(t)
         /\ Call(t).op = "get"
         /\ resp[t].status = 200
         /\ resp[t].text.ok
         /\ WellFormedFor("get", resp[t].text.s))
            => LET j == Parse(resp[t].text.s).v.o IN
               /\ result[t].kind = "Ok"
               /\ DOMAIN result[t].v = {"name", "slug", "description", "models"}
               /\ result[t].v.name = j.name.s
               /\ result[t].v.slug = j.slug.s
               /\ result[t].v.description = j.description.s
               /\ Len(result[t].v.models) = Len(j.models.a)
               /\ \A i \in DOMAIN j.models.a : result[t].v.models[i] = j.models.a[i].o

\* Scenario A.
C3_Witness ==
    \E t \in Threads :
        /\ Answered(t)
        /\ Call(t).op = "get" /\ Call(t).arg = "super-resolution"
        /\ resp[t].status = 200
        /\ resp[t].text = [ok |-> TRUE, s |-> TextGetOk]
        /\ result[t].kind = "Ok"
        /\ result[t].v.name = "Super resolution"

(* C4: every call hands exactly one request to send(), whatever its        *)
(* outcome; after n calls exactly n requests have been sent.               *)
C4_OneRequestPerCall ==
    /\ Len(requests) = Len(calls)
    /\ \A id \in DOMAIN calls : Cardinality(RequestsOf(id)) = 1

\* Two calls that failed in different ways, and a third one made after them.
C4_Witness ==
    /\ Len(calls) = 3
    /\ \E t, u \in Threads :
          /\ Done(t) /\ result[t].kind = "TransportError" /\ ~resp[t].ok
          /\ Done(u) /\ result[u].kind = "DecodeError"

(* C5: every request carries Authorization: "Token " followed by the       *)
(* configured auth token, and User-Agent: the configured user agent.       *)
C5_Headers ==
    \A k \in DOMAIN requests :
        requests[k].headers =
            << <<"Authorization", "Token " \o parent.auth>>,
               <<"User-Agent", parent.user_agent>> >>

\* The test's configuration, on a get and on a list request.
C5_Witness ==
    /\ parent.auth = "test"
    /\ \E k, l \in DOMAIN requests :
          /\ calls[requests[k].call].op = "get"
          /\ calls[requests[l].call].op = "list"
          /\ requests[k].headers[1] = <<"Authorization", "Token test">>
          /\ requests[l].headers[1] = <<"Authorization", "Token test">>
          /\ requests[l].headers[2] = <<"User-Agent", "replicate-rust/0.5.1">>

(* C6: get(slug) issues GET {base_url}/collections/{slug} and list issues  *)
(* GET {base_url}/collections, base_url being the Config's at the call.    *)
C6_Urls ==
    \A k \in DOMAIN requests :
        LET c == calls[requests[k].call] IN
        /\ requests[k].method = "GET"
        /\ c.op = "get" => requests[k].url = parent.base_url \o "/collections/" \o c.arg
        /\ c.op = "list" => requests[k].url = parent.base_url \o "/collections"

\* The two paths the tests' mock server expects.
C6_Witness ==
    \E k, l \in DOMAIN requests :
        /\ requests[k].url = "http://127.0.0.1:5000/collections/super-resolution"
        /\ requests[l].url = "http://127.0.0.1:5000/collections"

(* C7: the page list returns has exactly the elements of the response's    *)
(* results array, as many and in the same order, and list never follows    *)
(* a cursor: a non-null next causes no further request.                    *)
C7_ListPageIsTheResponse ==
    \A t \in Threads :
        (Done(t) /\ Call(t).op = "list" /\ result[t].kind = "Ok")
            => LET j == Parse(resp[t].text.s).v.o IN
               /\ Len(result[t].v.results) = Len(j.results.a)
               /\ \A i \in DOMAIN j.results.a :
                     /\ result[t].v.results[i].name = j.results.a[i].o.name.s
                     /\ result[t].v.results[i].slug = j.results.a[i].o.slug.s
                     /\ result[t].v.results[i].description
                            = j.results.a[i].o.description.s
               /\ RequestsOf(cur[t]) = {cur[t]}

\* Scenario B (two results, no cursor) on one thread, a page with a
\* non-null next on the other.
C7_Witness ==
    \E t, u \in Threads :
        /\ Answered(t) /\ Call(t).op = "list"
        /\ resp[t].text = [ok |-> TRUE, s |-> TextListTwo]
        /\ result[t].kind = "Ok"
        /\ Len(result[t].v.results) = 2
        /\ Answered(u) /\ Call(u).op = "list"
        /\ resp[u].text = [ok |-> TRUE, s |-> TextListNext]
        /\ result[u].kind = "Ok"
        /\ result[u].v.next.some
        /\ Len(result[u].v.results) = 1

(* C8: every call ends in exactly one of Ok with a fully decoded struct,   *)
(* a transport error, a ResponseError or a decode error; Ok is never       *)
(* returned for a non-success status or a body that failed to decode, and  *)
(* the struct returned is never partially populated.                       *)
C8_Outcomes ==
    \A t \in Threads :
        Done(t) =>
            /\ result[t].kind \in ResultKinds
            /\ result[t].kind = "Ok" =>
                  /\ resp[t].ok
                  /\ resp[t].status \in SuccessRange
                  /\ resp[t].text.ok
                  /\ WellFormedFor(Call(t).op, resp[t].text.s)
                  /\ DOMAIN result[t].v =
                        IF Call(t).op = "get"
                        THEN {"name", "slug", "description", "models"}
                        ELSE {"results", "next", "previous"}
            /\ result[t].kind = "TransportError" =>
                  ~resp[t].ok \/ ~resp[t].text.ok
            /\ result[t].kind = "ResponseError" =>
                  resp[t].ok /\ resp[t].status \notin SuccessRange
            /\ result[t].kind = "DecodeError" =>
                  resp[t].ok /\ resp[t].status \in SuccessRange

\* An Ok on one thread beside a decode failure of the same body on the other.
C8_Witness ==
    \E t, u \in Threads :
        /\ Done(t) /\ result[t].kind = "Ok" /\ Call(t).op = "list"
        /\ Done(u) /\ result[u].kind = "DecodeError" /\ Call(u).op = "get"
        /\ resp[u] = resp[t]

\* Two finished calls with the same operation, argument and response.
SameInputs(t, u) ==
    /\ Done(t) /\ Done(u)
    /\ Call(t).op = Call(u).op
    /\ Call(t).arg = Call(u).arg
    /\ resp[t] = resp[u]

C9_Deterministic ==
    \A t, u \in Threads : SameInputs(t, u) => result[t] = result[u]

C9_ConfigUnchanged == parent' = parent

\* What a call has returned stays as returned while other calls run.
C9_ResultStable ==
    \A t \in Threads :
        (Done(t) /\ cur'[t] = cur[t]) => (pc'[t] = "done" /\ result'[t] = result[t])

(* C9: under any interleaving of get and list calls from several threads,  *)
(* no call changes the Config, a returned result is not changed by other   *)
(* calls, and a call's result is determined by its own arguments, the      *)
(* Config and the response to its own request: calls with the same         *)
(* operation, argument and response return the same result, whatever       *)
(* other calls are in flight or came before.                               *)
C9_NoSharedState ==
    /\ [][C9_ConfigUnchanged /\ C9_ResultStable]_vars
    /\ []C9_Deterministic

\* Two threads finished with the same inputs, the later call having been
\* made while an earlier call of the other thread had already returned,
\* and one more call made before.
C9_Witness ==
    \E t, u \in Threads :
        /\ t # u
        /\ SameInputs(t, u)
        /\ Len(calls) = 3
        /\ result[t].kind = "Ok"

(* C10: the status check comes before any decoding: with a non-success     *)
(* status the body is never parsed, so the result is an error even when    *)
(* the body is well-formed JSON of the expected shape; and a failed read   *)
(* of the body text, on either path, returns that read's transport error,  *)
(* not a ResponseError and not a decode error.                             *)
C10_StatusBeforeDecode ==
    \A t \in Threads :
        Answered(t) =>
            /\ resp[t].status \notin SuccessRange =>
                  result[t].kind \in {"ResponseError", "TransportError"}
            /\ ~resp[t].text.ok =>
                  result[t] = [kind |-> "TransportError", err |-> resp[t].text.err]

\* A 404 whose body is the well-formed JSON of the endpoint, a failed read
\* on a success status and a failed read on a non-success status.
C10_Witness ==
    /\ \E t \in Threads :
          /\ Answered(t) /\ Call(t).op = "get"
          /\ resp[t].status = 404
          /\ resp[t].text = [ok |-> TRUE, s |-> TextGetOk]
          /\ result[t] = [kind |-> "ResponseError", text |-> TextGetOk]
    /\ \E u \in Threads :
          /\ Answered(u)
          /\ resp[u].status = 200
          /\ ~resp[u].text.ok
          /\ result[u].kind = "TransportError"

=============================================================================
